---- MODULE Spec2Model ----
(***************************************************************************)
(* bern-test: on-target test runner.                                       *)
(*                                                                         *)
(* The model follows the code generated by the `tests` macro               *)
(* (macros/src/lib.rs: runner, __runall_initiate, __runall, __run,         *)
(* panicked, the panic handler), the persisted counters of src/run_all.rs, *)
(* the reporting functions of src/lib.rs and the console selection of      *)
(* src/console.rs.  One power cycle is one call of runner(); a warm reset  *)
(* re-enters runner() with the three .uninit statics preserved.            *)
(* In the comments below "lib.rs:n" is macros/src/lib.rs and "src/lib.rs:n"*)
(* is the crate root src/lib.rs.                                           *)
(***************************************************************************)
EXTENDS Integers, Sequences, FiniteSets, TLC

\* ------------------------------------------------------------------ bounds
\* Largest number of registered tests explored (n_tests ranges over 1..MaxTests).
MaxTests == 3
\* Panic-handler entries in one power cycle before the stack is exhausted
\* and the core locks up.
MaxPanicDepth == 2
\* The operator selects single tests while TEST_SUCCESSFUL is below MaxCount
\* or at the top of its range; the values in between are not explored.
MaxCount == 3

\* ------------------------------------------------------- program constants
\* run_all.rs:9  const SECRET_NUMBER: u32 = 0x12345678
SECRET_NUMBER == 305419896
\* macros/src/lib.rs:208  the selection that starts a run of all tests
RUN_ALL == 255
\* u8 arithmetic of TEST_NEXT / TEST_SUCCESSFUL (run_all.rs:5,7)
U8_MOD == 256
\* console.rs:8  let mut rx_buffer = [0u8; 128]
RX_BUFFER_LEN == 128

\* Contents of the .uninit section after a cold power-on.  The section is
\* not initialised; the design relies on the 32-bit pattern not being the
\* secret, so the secret itself is not among the power-on values.
ColdSecrets == {0, SECRET_NUMBER + 1}
StaleValues == {0, 1, 255}

\* What a user-written hook (test_set_up / test_tear_down / tear_down) does
\* when it is spliced into the runner: it returns, it issues a soft reset
\* (macros/src/lib.rs:22) or it panics.
HookOutcomes == {"return", "reset", "panic"}

VARIABLES
    TEST_SECRET,      \* run_all.rs:3   persisted sentinel
    TEST_NEXT,        \* run_all.rs:5   persisted index of the next test
    TEST_SUCCESSFUL,  \* run_all.rs:7   persisted success counter
    SHOULD_PANIC,     \* lib.rs:197     flag read by the panic handler
    autorun,          \* src/lib.rs:90  feature "autorun"
    overflow_checks,  \* build profile: u8 overflow panics (TRUE) or wraps
    n_tests,          \* lib.rs:184     number of registered tests
    should_panic,     \* lib.rs:159     per test: #[should_panic]
    pc,               \* position of the single thread of control
    test_index,       \* lib.rs:207/247 the index handed to __run
    mode,             \* which caller invoked __run: "single" or "all"
    panicDepth,       \* panic-handler entries in this power cycle
    faultIn,          \* where the latest panic was raised
    boot,             \* observations of this power cycle
    executed,         \* test bodies started by __runall since activate()
    report,           \* last per-test outcome printed in this power cycle
    summary,          \* "test result" line printed in this power cycle
    summaries,        \* "test result" lines printed since activate()
    diag              \* diagnostic lines printed by the last read attempt

store == <<TEST_SECRET, TEST_NEXT, TEST_SUCCESSFUL>>
config == <<autorun, overflow_checks, n_tests, should_panic>>
vars == <<TEST_SECRET, TEST_NEXT, TEST_SUCCESSFUL, SHOULD_PANIC, autorun,
          overflow_checks, n_tests, should_panic, pc, test_index, mode,
          panicDepth, faultIn, boot, executed, report, summary, summaries,
          diag>>

\* ------------------------------------------------------------- run_all.rs
\* is_active treating every non-zero sentinel as an active run.
is_active_NonZero == TEST_SECRET # 0

\* run_all.rs:21  is_active
is_active == TEST_SECRET = SECRET_NUMBER

\* ------------------------------------------------------ power cycle / boot
NoSummary == [outcome |-> "none", passed |-> 0, failed |-> 0]

\* Observations of one power cycle: the store as runner() found it, whether
\* the power cycle before it printed the summary of a run and left the
\* store as this one finds it, the hook and body invocations, whether
\* __runall_initiate ran, the value handle_user_input() returned (-1: none
\* yet) and its last read attempt.
NoRx == [downlink |-> TRUE, stream |-> <<>>]

BootRecord(secret, next, successful) ==
    [active    |-> secret = SECRET_NUMBER,
     next      |-> next,
     success   |-> successful,
     afterSummary |-> /\ summary.outcome # "none"
                      /\ <<secret, next, successful>> = store,
     setUps    |-> 0,
     tearDowns |-> 0,
     bodies    |-> 0,
     initiated |-> FALSE,
     selection |-> -1,
     rx        |-> NoRx]

\* Entry of runner() after a reset: statics of ordinary sections are
\* re-initialised (SHOULD_PANIC = false, lib.rs:197), the stack is empty.
\* The observations of a run (executed, summaries) are kept for as long as
\* the run is active and start afresh otherwise.
EnterRunner(secret, next, successful) ==
    /\ pc' = "runner"
    /\ SHOULD_PANIC' = FALSE
    /\ test_index' = 0
    /\ mode' = "none"
    /\ panicDepth' = 0
    /\ faultIn' = "none"
    /\ report' = "none"
    /\ diag' = 0
    /\ summary' = NoSummary
    /\ boot' = BootRecord(secret, next, successful)
    /\ executed' = IF secret = SECRET_NUMBER THEN executed ELSE <<>>
    /\ summaries' = IF secret = SECRET_NUMBER THEN summaries ELSE 0

\* A warm reset keeps the .uninit section.
SysReset ==
    /\ EnterRunner(TEST_SECRET, TEST_NEXT, TEST_SUCCESSFUL)
    /\ UNCHANGED <<store, config>>

\* State at the first call of runner() after power-on.  At least one test
\* is registered: with none, the generated `0u8 - 1` of lib.rs:237 is
\* rejected by the compiler.
Init ==
    /\ TEST_SECRET \in ColdSecrets
    /\ TEST_NEXT \in StaleValues
    /\ TEST_SUCCESSFUL \in StaleValues
    /\ SHOULD_PANIC = FALSE
    /\ autorun \in BOOLEAN
    /\ overflow_checks \in BOOLEAN
    /\ n_tests \in 1..MaxTests
    /\ should_panic \in [0..(MaxTests - 1) -> BOOLEAN]
    /\ \A i \in 0..(MaxTests - 1) : i >= n_tests => ~should_panic[i]
    /\ pc = "runner"
    /\ test_index = 0
    /\ mode = "none"
    /\ panicDepth = 0
    /\ faultIn = "none"
    /\ summary = NoSummary
    /\ boot = BootRecord(TEST_SECRET, TEST_NEXT, TEST_SUCCESSFUL)
    /\ executed = <<>>
    /\ report = "none"
    /\ summaries = 0
    /\ diag = 0


\* ------------------------------------------------------------ console.rs
\* One read attempt of handle_user_input(): whether a downlink closure was
\* registered (serial.rs:125) and what the channel then delivers, item by
\* item: a byte, or -1 for an error of the read closure (Error::Peripheral).
Str(bytes) == [downlink |-> TRUE, stream |-> bytes \o <<10>>]
LongLine == [i \in 1..RX_BUFFER_LEN |-> 49]
RxAttempts ==
    { Str(<<48>>), Str(<<49>>), Str(<<50>>), Str(<<51>>), Str(<<52>>),
      Str(<<50, 53, 52>>), Str(<<50, 53, 53>>), Str(<<50, 53, 54>>),
      Str(<<48, 48, 49>>), Str(<<43, 49>>), Str(<<45, 49>>), Str(<<43>>),
      Str(<<120, 121, 122>>), Str(<<>>), Str(<<49, 32>>), Str(<<255, 49>>),
      [downlink |-> TRUE, stream |-> <<50, 13, 10>>],
      [downlink |-> TRUE, stream |-> <<49, -1>>],
      [downlink |-> TRUE, stream |-> LongLine \o <<10>>],
      [downlink |-> FALSE, stream |-> <<49, 10>>] }

\* serial.rs:124-142  Serial::readln on a 128-byte buffer: the loop stops
\* at the first item, among the first 128, that is a line terminator or a
\* read error; with none of them the buffer is overrun.  (Every stream of
\* RxAttempts holds such an item or at least 128 bytes, so the blocking
\* read always gets its next item.)
ReadLnFrom(stream) ==
    LET last  == IF Len(stream) < RX_BUFFER_LEN THEN Len(stream)
                 ELSE RX_BUFFER_LEN
        stops == {k \in 1..last : stream[k] \in {10, 13, -1}}
        first == CHOOSE k \in stops : \A j \in stops : k <= j
    IN  IF stops = {}
        THEN [ok |-> FALSE, err |-> "BufferOverrun", bytes |-> <<>>]
        ELSE IF stream[first] = -1
        THEN [ok |-> FALSE, err |-> "Peripheral", bytes |-> <<>>]
        ELSE [ok |-> TRUE, err |-> "none", bytes |-> SubSeq(stream, 1, first - 1)]

ReadLn(rx) ==
    IF ~rx.downlink THEN [ok |-> FALSE, err |-> "NoDownlink", bytes |-> <<>>]
    ELSE ReadLnFrom(rx.stream)

\* console.rs:15  core::str::from_utf8 on the bytes of the alphabet used
\* here (ASCII and the byte 0xFF, which no UTF-8 text contains)
IsUtf8(bytes) == \A k \in 1..Len(bytes) : bytes[k] < 128

\* console.rs:28  str::parse::<u8>: an optional '+', then decimal digits,
\* value at most 255; -1 stands for Err
RECURSIVE DigitsValue(_, _)
DigitsValue(digits, acc) ==
    IF digits = <<>> THEN acc
    ELSE IF Head(digits) \notin 48..57 THEN -1
    ELSE IF acc * 10 + (Head(digits) - 48) >= U8_MOD THEN -1
    ELSE DigitsValue(Tail(digits), acc * 10 + (Head(digits) - 48))

ParseU8(bytes) ==
    IF bytes = <<>> THEN -1
    ELSE LET digits == IF Head(bytes) = 43 THEN Tail(bytes) ELSE bytes
         IN  IF digits = <<>> THEN -1 ELSE DigitsValue(digits, 0)

\* console.rs:6-36  one iteration of the loop of handle_user_input():
\* value >= 0 is returned to the caller, value = -1 loops; lines counts
\* the diagnostic lines the iteration printed.
ReadAttempt(rx) ==
    LET r == ReadLn(rx) IN
    IF ~r.ok THEN [value |-> -1, lines |-> 2]
    ELSE IF ~IsUtf8(r.bytes) THEN [value |-> -1, lines |-> 0]
    ELSE IF ParseU8(r.bytes) = -1 THEN [value |-> -1, lines |-> 1]
    ELSE [value |-> ParseU8(r.bytes), lines |-> 0]


\* --------------------------------------------------------- panic handler
\* macros/src/lib.rs:322-324  a panic enters the panic handler, which calls
\* panicked(); a panic raised inside the handler enters it again.  After
\* MaxPanicDepth entries the stack is exhausted and the core locks up.
EnterPanic(origin) ==
    /\ faultIn' = origin
    /\ IF panicDepth < MaxPanicDepth
       THEN pc' = "panicked" /\ panicDepth' = panicDepth + 1
       ELSE pc' = "halted" /\ UNCHANGED panicDepth

\* src/lib.rs:27-30 with run_all.rs:32-34: print "ok", then
\* TEST_SUCCESSFUL += 1 on a u8: at 255 the addition panics in a build with
\* overflow checks and wraps in one without.
test_succeeded(then) ==
    /\ report' = "ok"
    /\ IF overflow_checks /\ TEST_SUCCESSFUL = U8_MOD - 1
       THEN EnterPanic("harness") /\ UNCHANGED TEST_SUCCESSFUL
       ELSE /\ TEST_SUCCESSFUL' = (TEST_SUCCESSFUL + 1) % U8_MOD
            /\ pc' = then
            /\ UNCHANGED <<panicDepth, faultIn>>

\* ----------------------------------------------------------------- runner
\* lib.rs:200-202  autorun build, no run active: header, then initiate
RunnerAutorun ==
    /\ pc = "runner"
    /\ autorun /\ ~is_active
    /\ pc' = "initiate"
    /\ UNCHANGED <<store, config, SHOULD_PANIC, test_index, mode, panicDepth,
                   faultIn, boot, executed, report, summary, summaries, diag>>

\* RunnerInteractive running the first test without waiting for a selection.
RunnerInteractive_RunsFirst ==
    /\ pc = "runner"
    /\ ~autorun /\ ~is_active
    /\ pc' = "setup"
    /\ mode' = "single"
    /\ UNCHANGED <<store, config, SHOULD_PANIC, test_index, panicDepth,
                   faultIn, boot, executed, report, summary, summaries, diag>>

\* lib.rs:203-207  no run active: header, list of tests, wait for a selection
RunnerInteractive ==
    /\ pc = "runner"
    /\ ~autorun /\ ~is_active
    /\ pc' = "menu"
    /\ UNCHANGED <<store, config, SHOULD_PANIC, test_index, mode, panicDepth,
                   faultIn, boot, executed, report, summary, summaries, diag>>

\* lib.rs:200,203  a run is active: both branches are skipped
RunnerResume ==
    /\ pc = "runner"
    /\ is_active
    /\ pc' = "runner_end"
    /\ UNCHANGED <<store, config, SHOULD_PANIC, test_index, mode, panicDepth,
                   faultIn, boot, executed, report, summary, summaries, diag>>

\* HandleUserInput without the `255 =>` arm: every value is handed to __run.
HandleUserInput_NoRunAll(rx) ==
    /\ pc = "menu"
    /\ LET a == ReadAttempt(rx) IN
       /\ diag' = a.lines
       /\ boot' = [boot EXCEPT !.selection = a.value, !.rx = rx]
       /\ IF a.value = -1
          THEN UNCHANGED <<pc, test_index, mode>>
          ELSE /\ pc' = "setup"
               /\ test_index' = a.value
               /\ mode' = "single"
    /\ UNCHANGED <<store, config, SHOULD_PANIC, panicDepth, faultIn, executed,
                   report, summary, summaries>>

\* HandleUserInput clearing TEST_NEXT when it rejects a line.
HandleUserInput_ClearsNext(rx) ==
    /\ pc = "menu"
    /\ LET a == ReadAttempt(rx) IN
       /\ diag' = a.lines
       /\ boot' = [boot EXCEPT !.selection = a.value, !.rx = rx]
       /\ IF a.value = -1
          THEN TEST_NEXT' = 0 /\ UNCHANGED <<pc, test_index, mode>>
          ELSE IF a.value = RUN_ALL
          THEN /\ pc' = "initiate"
               /\ UNCHANGED <<TEST_NEXT, test_index, mode>>
          ELSE /\ TEST_SUCCESSFUL < MaxCount \/ TEST_SUCCESSFUL = U8_MOD - 1
               /\ pc' = "setup"
               /\ test_index' = a.value
               /\ mode' = "single"
               /\ UNCHANGED TEST_NEXT
    /\ UNCHANGED <<TEST_SECRET, TEST_SUCCESSFUL, config, SHOULD_PANIC,
                   panicDepth, faultIn, executed, report, summary, summaries>>

\* lib.rs:207-217 with console.rs:5-37  one read attempt at the menu and
\* the dispatch on the value it returns
HandleUserInput(rx) ==
    /\ pc = "menu"
    /\ LET a == ReadAttempt(rx) IN
       /\ diag' = a.lines
       /\ boot' = [boot EXCEPT !.selection = a.value, !.rx = rx]
       /\ IF a.value = -1
          THEN UNCHANGED <<pc, test_index, mode>>
          ELSE IF a.value = RUN_ALL
          THEN /\ pc' = "initiate"
               /\ UNCHANGED <<test_index, mode>>
          ELSE /\ TEST_SUCCESSFUL < MaxCount \/ TEST_SUCCESSFUL = U8_MOD - 1
               /\ pc' = "setup"
               /\ test_index' = a.value
               /\ mode' = "single"
    /\ UNCHANGED <<store, config, SHOULD_PANIC, panicDepth, faultIn, executed,
                   report, summary, summaries>>

\* RunAllInitiateActivate setting the sentinel without the write of
\* run_all.rs:14 (the success counter keeps its old value).
RunAllInitiateActivate_KeepsCount ==
    /\ pc = "initiate"
    /\ TEST_SECRET' = SECRET_NUMBER
    /\ pc' = "initiate_set"
    /\ executed' = <<>>
    /\ summaries' = 0
    /\ boot' = [boot EXCEPT !.initiated = TRUE]
    /\ UNCHANGED <<TEST_NEXT, TEST_SUCCESSFUL, config, SHOULD_PANIC, test_index,
                   mode, panicDepth, faultIn, report, summary, diag>>

\* lib.rs:241 with run_all.rs:11-16  __runall_initiate: activate()
RunAllInitiateActivate ==
    /\ pc = "initiate"
    /\ TEST_SECRET' = SECRET_NUMBER
    /\ TEST_SUCCESSFUL' = 0
    /\ pc' = "initiate_set"
    /\ executed' = <<>>
    /\ summaries' = 0
    /\ boot' = [boot EXCEPT !.initiated = TRUE]
    /\ UNCHANGED <<TEST_NEXT, config, SHOULD_PANIC, test_index, mode,
                   panicDepth, faultIn, report, summary, diag>>

\* lib.rs:242-243 with run_all.rs:28-30  set_next_test(0), banner
RunAllInitiateSetNext ==
    /\ pc = "initiate_set"
    /\ TEST_NEXT' = 0
    /\ pc' = "runner_end"
    /\ UNCHANGED <<TEST_SECRET, TEST_SUCCESSFUL, config, SHOULD_PANIC,
                   test_index, mode, panicDepth, faultIn, boot, executed,
                   report, summary, summaries, diag>>

\* lib.rs:220-223  if is_active() { __runall() }, else runner returns
RunnerEnd ==
    /\ pc = "runner_end"
    /\ pc' = IF is_active THEN "runall" ELSE "returned"
    /\ UNCHANGED <<store, config, SHOULD_PANIC, test_index, mode, panicDepth,
                   faultIn, boot, executed, report, summary, summaries, diag>>

\* RunAllNext without the write of lib.rs:249 (the next index is not persisted).
RunAllNext_NoPersist ==
    /\ pc = "runall"
    /\ TEST_NEXT < n_tests
    /\ test_index' = TEST_NEXT
    /\ mode' = "all"
    /\ pc' = "setup"
    /\ UNCHANGED <<store, config, SHOULD_PANIC, panicDepth, faultIn, boot,
                   executed, report, summary, summaries, diag>>

\* RunAllNext persisting test_index + 2 (an off-by-one in the next index).
RunAllNext_SkipsOne ==
    /\ pc = "runall"
    /\ TEST_NEXT < n_tests
    /\ test_index' = TEST_NEXT
    /\ TEST_NEXT' = (TEST_NEXT + 2) % U8_MOD
    /\ mode' = "all"
    /\ pc' = "setup"
    /\ UNCHANGED <<TEST_SECRET, TEST_SUCCESSFUL, config, SHOULD_PANIC,
                   panicDepth, faultIn, boot, executed, report, summary,
                   summaries, diag>>

\* RunAllNext persisting the constant 1 instead of test_index + 1.
RunAllNext_PersistsOne ==
    /\ pc = "runall"
    /\ TEST_NEXT < n_tests
    /\ test_index' = TEST_NEXT
    /\ TEST_NEXT' = 1
    /\ mode' = "all"
    /\ pc' = "setup"
    /\ UNCHANGED <<TEST_SECRET, TEST_SUCCESSFUL, config, SHOULD_PANIC,
                   panicDepth, faultIn, boot, executed, report, summary,
                   summaries, diag>>

\* lib.rs:247-249  __runall, test_index < n_tests: persist test_index + 1
RunAllNext ==
    /\ pc = "runall"
    /\ TEST_NEXT < n_tests
    /\ test_index' = TEST_NEXT
    /\ TEST_NEXT' = (TEST_NEXT + 1) % U8_MOD
    /\ mode' = "all"
    /\ pc' = "setup"
    /\ UNCHANGED <<TEST_SECRET, TEST_SUCCESSFUL, config, SHOULD_PANIC,
                   panicDepth, faultIn, boot, executed, report, summary,
                   summaries, diag>>

\* lib.rs:253-265  __runall, all tests stepped: summary line, deactivate().
\* n_tests - successes is a u8 subtraction evaluated before the line is
\* printed: with successes > n_tests it panics (overflow checks) or wraps.
RunAllSummary ==
    /\ pc = "runall"
    /\ TEST_NEXT >= n_tests
    /\ IF overflow_checks /\ TEST_SUCCESSFUL > n_tests
       THEN /\ EnterPanic("harness")
            /\ UNCHANGED <<store, summary, summaries>>
       ELSE /\ summary' = [outcome |-> IF TEST_SUCCESSFUL = n_tests
                                       THEN "ok" ELSE "FAILED",
                           passed  |-> TEST_SUCCESSFUL,
                           failed  |-> (n_tests - TEST_SUCCESSFUL) % U8_MOD]
            /\ summaries' = IF summaries < 2 THEN summaries + 1 ELSE summaries
            /\ TEST_SECRET' = 0
            /\ pc' = "tear_down"
            /\ UNCHANGED <<TEST_NEXT, TEST_SUCCESSFUL, panicDepth, faultIn>>
    /\ UNCHANGED <<config, SHOULD_PANIC, test_index, mode, boot, executed,
                   report, diag>>


\* lib.rs:266,310-312  __tear_down: the one-time hook after the summary
TearDown(o) ==
    /\ pc = "tear_down"
    /\ CASE o = "reset"  -> SysReset
         [] o = "panic"  -> /\ EnterPanic("tear_down")
                            /\ UNCHANGED <<store, config, SHOULD_PANIC,
                                           test_index, mode, boot, executed,
                                           report, summary, summaries, diag>>
         [] o = "return" -> /\ pc' = "returned"
                            /\ UNCHANGED <<store, config, SHOULD_PANIC,
                                           test_index, mode, panicDepth,
                                           faultIn, boot, executed, report,
                                           summary, summaries, diag>>

\* lib.rs:213,250,300-302  __test_set_up: the hook before every test
TestSetUp(o) ==
    /\ pc = "setup"
    /\ CASE o = "reset"  -> SysReset
         [] o = "panic"  -> /\ EnterPanic("setup")
                            /\ boot' = [boot EXCEPT !.setUps = @ + 1]
                            /\ UNCHANGED <<store, config, SHOULD_PANIC,
                                           test_index, mode, executed, report,
                                           summary, summaries, diag>>
         [] o = "return" -> /\ pc' = "run"
                            /\ boot' = [boot EXCEPT !.setUps = @ + 1]
                            /\ UNCHANGED <<store, config, SHOULD_PANIC,
                                           test_index, mode, panicDepth,
                                           faultIn, executed, report, summary,
                                           summaries, diag>>

\* Run without the store of lib.rs:276 (SHOULD_PANIC is left as it was).
Run_NoStore ==
    /\ pc = "run"
    /\ IF test_index < n_tests
       THEN /\ pc' = "body"
            /\ boot' = [boot EXCEPT !.bodies = @ + 1]
            /\ executed' = IF mode = "all"
                           THEN Append(executed, test_index) ELSE executed
       ELSE /\ pc' = "teardown"
            /\ UNCHANGED <<boot, executed>>
    /\ UNCHANGED <<store, config, SHOULD_PANIC, test_index, mode, panicDepth,
                   faultIn, report, summary, summaries, diag>>

\* lib.rs:270-277,286  __run: the arm of a registered index prints the test
\* line and stores its should_panic into SHOULD_PANIC before the call of
\* the body; any other index matches `_ => ()`.
Run ==
    /\ pc = "run"
    /\ IF test_index < n_tests
       THEN /\ SHOULD_PANIC' = should_panic[test_index]
            /\ pc' = "body"
            /\ boot' = [boot EXCEPT !.bodies = @ + 1]
            /\ executed' = IF mode = "all"
                           THEN Append(executed, test_index) ELSE executed
       ELSE /\ pc' = "teardown"
            /\ UNCHANGED <<SHOULD_PANIC, boot, executed>>
    /\ UNCHANGED <<store, config, test_index, mode, panicDepth, faultIn,
                   report, summary, summaries, diag>>

\* lib.rs:278-283 with src/lib.rs:27-36  the body returned: success unless
\* the test is #[should_panic], then "FAILED / did not panic"
TestReturns ==
    /\ pc = "body"
    /\ IF ~should_panic[test_index]
       THEN test_succeeded("teardown")
       ELSE /\ report' = "did_not_panic"
            /\ pc' = "teardown"
            /\ UNCHANGED <<TEST_SUCCESSFUL, panicDepth, faultIn>>
    /\ UNCHANGED <<TEST_SECRET, TEST_NEXT, config, SHOULD_PANIC, test_index,
                   mode, boot, executed, summary, summaries, diag>>

\* lib.rs:277,322-324  the body panics: control passes to the panic handler
TestPanics ==
    /\ pc = "body"
    /\ EnterPanic("body")
    /\ UNCHANGED <<store, config, SHOULD_PANIC, test_index, mode, boot,
                   executed, report, summary, summaries, diag>>

\* lib.rs:277 with lib.rs:22  the body ends in a reset of the device (it
\* issues the soft reset itself, or a watchdog fires while it hangs)
TestResets ==
    /\ pc = "body"
    /\ SysReset

\* TestTearDown with __runall looping: after the tear-down hook returns,
\* the next test is stepped in the same power cycle.
TestTearDown_Continues(o) ==
    /\ pc = "teardown"
    /\ CASE o = "reset"  -> SysReset
         [] o = "panic"  -> /\ EnterPanic("teardown")
                            /\ boot' = [boot EXCEPT !.tearDowns = @ + 1]
                            /\ UNCHANGED <<store, config, SHOULD_PANIC,
                                           test_index, mode, executed, report,
                                           summary, summaries, diag>>
         [] o = "return" -> /\ pc' = IF mode = "single"
                                     THEN "runner_end" ELSE "runall"
                            /\ boot' = [boot EXCEPT !.tearDowns = @ + 1]
                            /\ UNCHANGED <<store, config, SHOULD_PANIC,
                                           test_index, mode, panicDepth,
                                           faultIn, executed, report, summary,
                                           summaries, diag>>

\* lib.rs:215,252,304-307  __test_tear_down called by runner / __runall.
\* After it returns, the single-test branch falls through to lib.rs:220
\* and __runall returns through runner to its caller.
TestTearDown(o) ==
    /\ pc = "teardown"
    /\ CASE o = "reset"  -> SysReset
         [] o = "panic"  -> /\ EnterPanic("teardown")
                            /\ boot' = [boot EXCEPT !.tearDowns = @ + 1]
                            /\ UNCHANGED <<store, config, SHOULD_PANIC,
                                           test_index, mode, executed, report,
                                           summary, summaries, diag>>
         [] o = "return" -> /\ pc' = IF mode = "single"
                                     THEN "runner_end" ELSE "returned"
                            /\ boot' = [boot EXCEPT !.tearDowns = @ + 1]
                            /\ UNCHANGED <<store, config, SHOULD_PANIC,
                                           test_index, mode, panicDepth,
                                           faultIn, executed, report, summary,
                                           summaries, diag>>

\* Panicked ending the run on an unexpected panic (deactivate()).
Panicked_Deactivates ==
    /\ pc = "panicked"
    /\ IF SHOULD_PANIC
       THEN test_succeeded("panicked_teardown") /\ UNCHANGED TEST_SECRET
       ELSE /\ report' = "panicked"
            /\ pc' = "panicked_teardown"
            /\ TEST_SECRET' = 0
            /\ UNCHANGED <<TEST_SUCCESSFUL, panicDepth, faultIn>>
    /\ UNCHANGED <<TEST_NEXT, config, SHOULD_PANIC, test_index, mode, boot,
                   executed, summary, summaries, diag>>

\* lib.rs:290-295 with src/lib.rs:27-42  panicked(): SHOULD_PANIC decides
\* between test_succeeded() and test_panicked()
Panicked ==
    /\ pc = "panicked"
    /\ IF SHOULD_PANIC
       THEN test_succeeded("panicked_teardown")
       ELSE /\ report' = "panicked"
            /\ pc' = "panicked_teardown"
            /\ UNCHANGED <<TEST_SUCCESSFUL, panicDepth, faultIn>>
    /\ UNCHANGED <<TEST_SECRET, TEST_NEXT, config, SHOULD_PANIC, test_index,
                   mode, boot, executed, summary, summaries, diag>>

\* lib.rs:296,325-327  __test_tear_down called by panicked(); when it
\* returns the panic handler spins forever
PanickedTearDown(o) ==
    /\ pc = "panicked_teardown"
    /\ CASE o = "reset"  -> SysReset
         [] o = "panic"  -> /\ EnterPanic("teardown")
                            /\ boot' = [boot EXCEPT !.tearDowns = @ + 1]
                            /\ UNCHANGED <<store, config, SHOULD_PANIC,
                                           test_index, mode, executed, report,
                                           summary, summaries, diag>>
         [] o = "return" -> /\ pc' = "halted"
                            /\ boot' = [boot EXCEPT !.tearDowns = @ + 1]
                            /\ UNCHANGED <<store, config, SHOULD_PANIC,
                                           test_index, mode, panicDepth,
                                           faultIn, executed, report, summary,
                                           summaries, diag>>

\* ------------------------------------------------------------ environment
\* The processor sits idle: runner() has returned, the panic handler
\* spins, or the console waits for the operator.
Idle == pc \in {"returned", "halted", "menu"}

\* An external warm reset (reset line, debugger) while idle.
WarmReset ==
    /\ Idle
    /\ SysReset

\* Power is removed and applied again: the .uninit section holds arbitrary
\* contents other than the secret.
ColdPowerOn ==
    /\ Idle
    /\ \E s \in ColdSecrets, n \in StaleValues, c \in StaleValues :
          /\ TEST_SECRET' = s
          /\ TEST_NEXT' = n
          /\ TEST_SUCCESSFUL' = c
          /\ EnterRunner(s, n, c)
    /\ UNCHANGED config

Next ==
    \/ RunnerAutorun
    \/ RunnerInteractive
    \/ RunnerResume
    \/ \E rx \in RxAttempts : HandleUserInput(rx)
    \/ RunAllInitiateActivate
    \/ RunAllInitiateSetNext
    \/ RunnerEnd
    \/ RunAllNext
    \/ RunAllSummary
    \/ \E o \in HookOutcomes : TearDown(o)
    \/ \E o \in HookOutcomes : TestSetUp(o)
    \/ Run
    \/ TestReturns
    \/ TestPanics
    \/ TestResets
    \/ \E o \in HookOutcomes : TestTearDown(o)
    \/ Panicked
    \/ \E o \in HookOutcomes : PanickedTearDown(o)
    \/ WarmReset
    \/ ColdPowerOn

Spec == Init /\ [][Next]_vars


\* An unattended run as the module documentation sets it up (lib.rs:18-23):
\* the autorun feature is on, test_set_up returns, test_tear_down issues
\* the soft reset, tear_down returns, and nobody touches the device.  The
\* processor keeps executing, and a test body returns or panics.
InitUnattended == Init /\ autorun

NextUnattended ==
    \/ RunnerAutorun
    \/ RunnerResume
    \/ RunAllInitiateActivate
    \/ RunAllInitiateSetNext
    \/ RunnerEnd
    \/ RunAllNext
    \/ RunAllSummary
    \/ TearDown("return")
    \/ TestSetUp("return")
    \/ Run
    \/ TestReturns
    \/ TestPanics
    \/ TestTearDown("reset")
    \/ Panicked
    \/ PanickedTearDown("reset")

SpecUnattended ==
    InitUnattended /\ [][NextUnattended]_vars /\ WF_vars(NextUnattended)

\* ================================================================ claims
Increasing(seq) == \A i, j \in 1..Len(seq) : i < j => seq[i] < seq[j]
Last(seq) == seq[Len(seq)]

\* C1 -- Resumption after a reset.  In a power cycle that runner() enters
\* with the store active and TEST_NEXT = k < n_tests: __runall_initiate is
\* not called; TEST_SUCCESSFUL keeps its boot value until the body of the
\* test has started; the one body started is that of test k; and the bodies
\* started since activate() have strictly increasing indices, so no test
\* below k runs again.
C1_Resumption ==
    (boot.active /\ boot.next < n_tests) =>
        /\ ~boot.initiated
        /\ boot.bodies <= 1
        /\ Increasing(executed)
        /\ (pc \in {"runner", "runner_end", "runall", "setup", "run", "body"}
              => TEST_SUCCESSFUL = boot.success)
        /\ (pc = "body" => test_index = boot.next)
        /\ (boot.bodies = 1 => executed # <<>> /\ Last(executed) = boot.next)

C1_Witness ==
    /\ boot.active /\ boot.next = 1
    /\ pc = "body"
    /\ executed = <<0, 1>>
    /\ TEST_SUCCESSFUL = 1

\* C2 -- Summary of an unattended run.  When __runall has printed the
\* summary and deactivated the store, exactly one summary line has been
\* printed since activate(); passed = TEST_SUCCESSFUL, failed =
\* n_tests - TEST_SUCCESSFUL >= 0, passed + failed = n_tests, and the
\* outcome is "ok" iff TEST_SUCCESSFUL = n_tests.
C2_SummaryLine ==
    pc = "tear_down" =>
        /\ summaries = 1
        /\ summary.passed = TEST_SUCCESSFUL
        /\ summary.failed = n_tests - TEST_SUCCESSFUL
        /\ summary.failed >= 0
        /\ summary.passed + summary.failed = n_tests
        /\ summary.outcome \in {"ok", "FAILED"}
        /\ (summary.outcome = "ok" <=> TEST_SUCCESSFUL = n_tests)


\* C3 -- Liveness of an unattended run.  With every boot entering runner()
\* and test_tear_down issuing the warm reset, the run reaches the summary
\* step with the store deactivated, one summary line printed, and the
\* bodies started since activate() being exactly tests 0..n_tests-1 in
\* increasing order, each once; no selection was ever read.
AllTests == [i \in 1..n_tests |-> i - 1]

C4_Accounting ==
    [][ /\ (pc = "body" /\ pc' # "runner" /\ faultIn' # "body") =>
              IF should_panic[test_index]
              THEN TEST_SUCCESSFUL' = TEST_SUCCESSFUL /\ report' = "did_not_panic"
              ELSE TEST_SUCCESSFUL' = TEST_SUCCESSFUL + 1 /\ report' = "ok"
        /\ (pc = "panicked" /\ faultIn = "body") =>
              IF should_panic[test_index]
              THEN TEST_SUCCESSFUL' = TEST_SUCCESSFUL + 1 /\ report' = "ok"
              ELSE TEST_SUCCESSFUL' = TEST_SUCCESSFUL /\ report' = "panicked"
      ]_vars

\* C5 -- In every reachable state with the store active,
\* TEST_SUCCESSFUL <= TEST_NEXT <= n_tests.
C5_CounterOrder ==
    is_active => (TEST_SUCCESSFUL <= TEST_NEXT /\ TEST_NEXT <= n_tests)


\* C6 -- A failing test does not abort the run.  At most one body starts
\* per power cycle; from __runall's step for test k on, panic handler
\* included, the store stays active with TEST_NEXT = k + 1; the panic
\* handler never passes control back to the coordinator and writes neither
\* TEST_SECRET nor TEST_NEXT; the boot after a warm reset finds the store
\* active with TEST_NEXT = k + 1, and a boot that finds the store active
\* steps test TEST_NEXT, or prints the summary if TEST_NEXT >= n_tests.
HandlerStates == {"panicked", "panicked_teardown", "halted"}

C6_Inv ==
    /\ boot.bodies <= 1
    /\ (mode = "all" => TEST_SECRET = SECRET_NUMBER /\ TEST_NEXT = test_index + 1)
    /\ (boot.active /\ pc \in {"setup", "run", "body", "teardown"}
          => test_index = boot.next /\ boot.next < n_tests)
    /\ (boot.active /\ pc = "tear_down" => boot.next >= n_tests)

C6_FailureDoesNotAbort ==
    /\ C6_Inv
    /\ [][ /\ C6_Inv'
           /\ (pc \in HandlerStates => pc' \in HandlerStates \cup {"runner"})
           /\ (pc \in {"panicked", "panicked_teardown"}
                 => TEST_SECRET' = TEST_SECRET /\ TEST_NEXT' = TEST_NEXT)
           /\ (mode = "all" /\ pc' = "runner" /\ TEST_SECRET' = SECRET_NUMBER
                 => boot'.active /\ boot'.next = test_index + 1)
         ]_vars

C6_Witness ==
    /\ boot.active /\ pc = "body"
    /\ executed = <<0, 1>>
    /\ ~should_panic[0]
    /\ TEST_SUCCESSFUL = 0

\* C7 -- Cold power-on, as claimed: a boot that finds a sentinel other
\* than the secret always goes to the interactive menu.
C7_AlwaysMenu ==
    [][ (pc = "runner" /\ TEST_SECRET # SECRET_NUMBER) => pc' = "menu" ]_vars

\* C7 (amended) -- A boot that finds a sentinel other than the secret,
\* whatever TEST_NEXT and TEST_SUCCESSFUL hold, goes to the interactive menu
\* in a build without autorun and initiates a fresh run in a build with
\* it, leaving the store untouched in that step; in such a power cycle
\* TEST_NEXT is read only after set_next_test(0), and a test is started
\* only for the selected index or as test 0 of the fresh run.
C7_Inv ==
    ~boot.active =>
        /\ (pc = "runall" => boot.initiated /\ TEST_NEXT = 0)
        /\ (pc \in {"setup", "run", "body"} =>
               \/ mode = "single" /\ test_index = boot.selection
               \/ mode = "all" /\ boot.initiated /\ test_index = 0)

C7_ColdPowerOn ==
    /\ C7_Inv
    /\ [][ /\ C7_Inv'
           /\ (pc = "runner" /\ TEST_SECRET # SECRET_NUMBER) =>
                 /\ pc' = IF autorun THEN "initiate" ELSE "menu"
                 /\ UNCHANGED store
         ]_vars

C7_Witness ==
    /\ pc = "menu"
    /\ TEST_SECRET = SECRET_NUMBER + 1
    /\ TEST_NEXT = 255 /\ TEST_SUCCESSFUL = 255
    /\ boot.bodies = 0

\* C8 -- Interactive menu, as claimed: only a selection in 0..n_tests-1 or
\* 255 causes a transition out of the menu.
C8_OnlyValidLeaves ==
    [][ (pc = "menu" /\ pc' \notin {"menu", "runner"})
           => boot'.selection \in (0..(n_tests - 1)) \cup {RUN_ALL} ]_vars

\* C8 (amended) -- With the store inactive at boot and no autorun, nothing
\* but the menu runs (no body, no set-up or tear-down hook) until
\* handle_user_input() returns; it returns only the value 0..255 parsed
\* from the line read; 255 initiates the run, every other value, N..254
\* included, leaves the menu for the single-test branch; a body starts
\* only for an index below n_tests.
C8_Inv ==
    /\ (~boot.active /\ ~autorun /\ boot.selection = -1) =>
           /\ pc \in {"runner", "menu"}
           /\ boot.bodies = 0 /\ boot.setUps = 0 /\ boot.tearDowns = 0
    /\ (pc = "body" => test_index < n_tests)
    /\ (mode = "single" /\ test_index >= n_tests => boot.bodies = 0)

C8_InteractiveMenu ==
    /\ C8_Inv
    /\ [][ /\ C8_Inv'
           /\ (pc = "menu" /\ pc' \notin {"menu", "runner"}) =>
                 /\ boot'.selection \in 0..255
                 /\ boot'.selection = ReadAttempt(boot'.rx).value
                 /\ IF boot'.selection = RUN_ALL
                    THEN pc' = "initiate"
                    ELSE /\ pc' = "setup"
                         /\ mode' = "single"
                         /\ test_index' = boot'.selection
         ]_vars

C8_Witness ==
    /\ ~autorun /\ ~boot.active
    /\ boot.selection = 254
    /\ pc = "teardown"
    /\ boot.setUps = 1 /\ boot.bodies = 0

\* C9 -- Selection 255 initiates the run exactly as autorun does.  The
\* value 255 always leads to __runall_initiate, touching nothing else; the
\* state in which __runall_initiate starts is the state of a fresh boot
\* with the store inactive, whichever of the two ways led there; then
\* activate(), set_next_test(0), and test 0 is stepped in the same power
\* cycle with TEST_NEXT = 1; every later boot of the run passes through
\* runner() without reading the autorun feature or changing the store.
C9_Inv ==
    /\ (pc = "initiate" =>
           /\ TEST_SECRET # SECRET_NUMBER
           /\ TEST_NEXT = boot.next /\ TEST_SUCCESSFUL = boot.success
           /\ ~SHOULD_PANIC /\ mode = "none" /\ test_index = 0
           /\ panicDepth = 0 /\ report = "none"
           /\ boot.bodies = 0 /\ boot.setUps = 0 /\ boot.tearDowns = 0
           /\ ~boot.initiated
           /\ boot.selection = IF autorun THEN -1 ELSE RUN_ALL)
    /\ (pc = "initiate_set" =>
           /\ TEST_SECRET = SECRET_NUMBER /\ TEST_SUCCESSFUL = 0
           /\ TEST_NEXT = boot.next /\ boot.initiated)
    /\ (boot.initiated /\ pc \in {"runner_end", "runall"} =>
           /\ TEST_SECRET = SECRET_NUMBER
           /\ TEST_NEXT = 0 /\ TEST_SUCCESSFUL = 0)
    /\ (boot.initiated /\ pc \in {"setup", "run", "body"} =>
           /\ mode = "all" /\ test_index = 0 /\ TEST_NEXT = 1)
    /\ (boot.initiated /\ boot.bodies = 1 => executed = <<0>>)

C9_RunAllSelection ==
    /\ C9_Inv
    /\ [][ /\ C9_Inv'
           /\ (pc = "menu" /\ boot'.selection = RUN_ALL) =>
                 /\ pc' = "initiate"
                 /\ UNCHANGED <<store, SHOULD_PANIC, test_index, mode,
                                panicDepth, executed, report>>
           /\ (pc = "runner" /\ TEST_SECRET = SECRET_NUMBER) =>
                 /\ pc' = "runner_end"
                 /\ UNCHANGED <<store, SHOULD_PANIC, test_index, mode>>
         ]_vars

C9_Witness ==
    /\ ~autorun
    /\ boot.selection = RUN_ALL /\ boot.initiated
    /\ pc = "body" /\ test_index = 0
    /\ TEST_NEXT = 1

\* C10 -- For every test invocation the per-test tear-down hook is invoked
\* exactly once in that power cycle: never twice, and once by the time the
\* coordinator has returned or the panic handler spins.
C10_TearDownOnce ==
    boot.bodies = 1 =>
        /\ boot.tearDowns <= 1
        /\ (pc \in {"returned", "halted", "runner_end"} => boot.tearDowns = 1)

\* C11 -- deactivate() exactly at completion.  The program clears the
\* sentinel in the step of __runall that finds TEST_NEXT >= n_tests and
\* prints the summary, and in no other step; every such step of an active
\* run prints the summary and clears it; the one-time tear_down hook is
\* entered from that step only and once; once the summary is printed the
\* store is inactive, and the boot that follows goes to the interactive
\* menu and does not initiate a run.
C11_Inv ==
    summary.outcome # "none" => ~is_active

C11_DeactivateAtCompletion ==
    /\ C11_Inv
    /\ [][ /\ C11_Inv'
           /\ (is_active /\ ~is_active' /\ pc' # "runner") =>
                 (pc = "runall" /\ TEST_NEXT >= n_tests
                    /\ summary'.outcome # "none")
           /\ (pc = "runall" /\ TEST_NEXT >= n_tests) =>
                 (~is_active' /\ summary'.outcome # "none"
                    /\ pc' = "tear_down")
           /\ (pc' = "tear_down" => pc = "runall")
           /\ (pc = "tear_down" => pc' # "tear_down")
           /\ (pc = "runner" /\ boot.afterSummary) => pc' = "menu"
         ]_vars

\* C12 -- Store contract.  activate() sets the sentinel to the secret and
\* TEST_SUCCESSFUL to 0 and leaves TEST_NEXT as it is; deactivate() leaves
\* the store inactive and TEST_NEXT and TEST_SUCCESSFUL as they are;
\* is_active() holds exactly when the sentinel equals the secret, and it
\* alone decides whether runner() resumes and whether __runall is called;
\* the sentinel becomes the secret only in a step that also sets
\* TEST_SUCCESSFUL to 0.
C12_StoreContract ==
    /\ (is_active <=> TEST_SECRET = SECRET_NUMBER)
    /\ [][ /\ pc = "initiate" =>
                 /\ TEST_SECRET' = SECRET_NUMBER
                 /\ TEST_SUCCESSFUL' = 0
                 /\ TEST_NEXT' = TEST_NEXT
           /\ (pc = "runall" /\ TEST_SECRET' # TEST_SECRET) =>
                 /\ ~is_active'
                 /\ UNCHANGED <<TEST_NEXT, TEST_SUCCESSFUL>>
           /\ (TEST_SECRET # SECRET_NUMBER /\ TEST_SECRET' = SECRET_NUMBER) =>
                 /\ pc = "initiate"
                 /\ TEST_SUCCESSFUL' = 0
           /\ (pc = "runner" /\ pc' = "runner_end") => TEST_SECRET = SECRET_NUMBER
           /\ (pc = "runner_end" /\ pc' = "runall") => TEST_SECRET = SECRET_NUMBER
           /\ (pc = "runner_end" /\ pc' = "returned") => TEST_SECRET # SECRET_NUMBER
         ]_vars

C12_Witness ==
    /\ pc = "initiate_set"
    /\ TEST_SECRET = SECRET_NUMBER
    /\ boot.success = 255 /\ TEST_SUCCESSFUL = 0
    /\ boot.next = 255 /\ TEST_NEXT = 255

\* C13 -- Console selection.  Every read attempt of handle_user_input()
\* that fails, by an error of the channel, by bytes that are no UTF-8 text
\* or by a line that is no u8, prints exactly one diagnostic line and
\* stays in the loop; an attempt that returns prints none and returns the
\* value 0..255 parsed from the line read.
C13_OneDiagnostic ==
    [][ (pc = "menu" /\ pc' # "runner") =>
           IF boot'.selection = -1
           THEN diag' = 1 /\ pc' = "menu"
           ELSE /\ diag' = 0
                /\ boot'.selection \in 0..255
                /\ ReadLn(boot'.rx).ok
                /\ boot'.selection = ParseU8(ReadLn(boot'.rx).bytes)
                /\ pc' # "menu"
      ]_vars

\* C14 -- Rejected console input leaves the store alone.  While the menu
\* waits, after any number of rejected lines, the store is inactive and
\* TEST_NEXT and TEST_SUCCESSFUL hold the values runner() found at boot;
\* neither the step into the menu nor a rejected read attempt writes
\* TEST_SECRET, TEST_NEXT or TEST_SUCCESSFUL, and a rejected attempt stays
\* in the menu.
C14_Inv ==
    pc = "menu" =>
        /\ ~is_active /\ ~boot.active
        /\ TEST_NEXT = boot.next
        /\ TEST_SUCCESSFUL = boot.success
        /\ boot.bodies = 0

C14_FailedInputFrame ==
    /\ C14_Inv
    /\ [][ /\ C14_Inv'
           /\ (pc \in {"runner", "menu"} /\ pc' = "menu") => UNCHANGED store
           /\ (pc = "menu" /\ pc' # "runner" /\ boot'.selection = -1) =>
                 (pc' = "menu" /\ UNCHANGED store)
         ]_vars

C14_Witness ==
    /\ pc = "menu"
    /\ boot.selection = -1 /\ boot.rx = Str(<<120, 121, 122>>)
    /\ diag = 1
    /\ TEST_SECRET = SECRET_NUMBER + 1
    /\ TEST_NEXT = 255 /\ TEST_SUCCESSFUL = 1

\* C15 -- RunningSingle.  In a power cycle in which a test index
\* i < n_tests was selected: test_set_up, the body of test i and
\* test_tear_down are each invoked at most once and in that order, and each
\* exactly once by the time the single-test branch has returned; no other
\* body starts and __runall is not entered; runner() then returns; the
\* store stays inactive with TEST_NEXT as found at boot, and the boot that
\* follows finds no active run.
C15_Inv ==
    (mode = "single" /\ test_index < n_tests) =>
        /\ test_index = boot.selection
        /\ ~is_active /\ ~boot.active /\ ~boot.initiated
        /\ TEST_NEXT = boot.next
        /\ boot.setUps <= 1 /\ boot.bodies <= 1 /\ boot.tearDowns <= 1
        /\ (pc \in {"run", "body"} => boot.setUps = 1 /\ boot.tearDowns = 0)
        /\ (boot.bodies = 1 => boot.setUps = 1)
        /\ (pc = "teardown" => boot.bodies = 1 /\ boot.tearDowns = 0)
        /\ (pc \in {"runner_end", "returned"} =>
               boot.setUps = 1 /\ boot.bodies = 1 /\ boot.tearDowns = 1)
        /\ pc \notin {"initiate", "initiate_set", "runall", "tear_down"}

C15_RunningSingle ==
    /\ C15_Inv
    /\ [][ /\ C15_Inv'
           /\ (mode = "single" /\ pc = "runner_end") => pc' = "returned"
           /\ (mode = "single" /\ pc' = "runner") => ~boot'.active
         ]_vars

\* C16 -- The next index is persisted before the hooks and the body.  The
\* step of __runall for test k writes TEST_NEXT = k + 1 before any hook or
\* body of this power cycle has been invoked; TEST_NEXT keeps that value
\* through set-up, body, tear-down and the panic handler, and a warm reset
\* taken anywhere from there carries it into the next boot; so every body
\* started in the run has an index below TEST_NEXT and above all bodies
\* started before it: no test is executed a second time.
C16_Inv ==
    /\ (mode = "all" =>
           /\ is_active
           /\ test_index < n_tests
           /\ TEST_NEXT = test_index + 1)
    /\ (mode = "all" /\ pc = "setup" =>
           boot.setUps = 0 /\ boot.bodies = 0 /\ boot.tearDowns = 0)
    /\ Increasing(executed)
    /\ (is_active /\ executed # <<>> /\ pc # "initiate_set"
           => Last(executed) < TEST_NEXT)

C16_PersistBeforeSetUp ==
    /\ C16_Inv
    /\ [][ /\ C16_Inv'
           /\ (pc = "runall" /\ pc' = "setup") =>
                 /\ test_index' = TEST_NEXT
                 /\ TEST_NEXT' = TEST_NEXT + 1
                 /\ boot' = boot /\ executed' = executed
           /\ (mode = "all" /\ pc' # "runner") => TEST_NEXT' = TEST_NEXT
           /\ (mode = "all" /\ pc' = "runner" /\ is_active') =>
                 (TEST_NEXT' = test_index + 1 /\ executed' = executed)
         ]_vars

C16_Witness ==
    /\ n_tests = 3
    /\ mode = "all" /\ pc = "setup"
    /\ test_index = 2 /\ TEST_NEXT = 3
    /\ executed = <<1>>

\* C17 -- SHOULD_PANIC.  The flag is false when runner() is entered and
\* stays false until the arm of a test is entered; while the body of test
\* i runs it equals should_panic[i]; when panicked() handles a panic
\* raised in the body of test i the flag it reads equals should_panic[i],
\* and its report follows that value.
C17_Inv ==
    /\ (boot.bodies = 0 => ~SHOULD_PANIC)
    /\ (pc = "body" => SHOULD_PANIC = should_panic[test_index])
    /\ (pc = "panicked" /\ faultIn = "body"
           => SHOULD_PANIC = should_panic[test_index])

C17_ShouldPanicFlag ==
    /\ C17_Inv
    /\ [][ /\ C17_Inv'
           /\ (pc' = "runner" => ~SHOULD_PANIC')
           /\ (pc = "run" /\ pc' = "body") =>
                 SHOULD_PANIC' = should_panic[test_index]
           /\ (pc = "panicked" /\ faultIn = "body") =>
                 report' = IF should_panic[test_index] THEN "ok" ELSE "panicked"
         ]_vars

C17_Witness ==
    /\ pc = "panicked" /\ faultIn = "body"
    /\ mode = "all" /\ test_index = 1
    /\ should_panic[1] /\ ~should_panic[0]
    /\ SHOULD_PANIC

\* C18 -- One test body per boot.  In every power cycle at most one body
\* starts, whether the test was selected or stepped by __runall; __runall
\* is entered only before any hook or body of the power cycle has run;
\* when the tear-down hook returns, __runall returns to runner() and
\* runner() to its caller (the single-test branch through the check of
\* lib.rs:220, which finds no active run); after that nothing is executed
\* and the store is not written until the device is reset, even with the
\* run still active.
C18_Inv ==
    /\ boot.bodies <= 1
    /\ (pc = "runall" => boot.bodies = 0 /\ boot.setUps = 0)
    /\ (pc = "runner_end" /\ mode = "single" => ~is_active)

C18_OneBodyPerBoot ==
    /\ C18_Inv
    /\ [][ /\ C18_Inv'
           /\ (pc' = "body" => pc = "run" /\ boot.bodies = 0)
           /\ (pc = "teardown" /\ pc' \notin {"runner", "panicked", "halted"}) =>
                 pc' = IF mode = "all" THEN "returned" ELSE "runner_end"
           /\ (pc = "runner_end" /\ mode = "single") => pc' = "returned"
           /\ (pc = "returned") =>
                 /\ pc' = "runner" /\ boot'.bodies = 0
                 /\ (is_active' => UNCHANGED store /\ executed' = executed)
         ]_vars

C18_Witness ==
    /\ pc = "returned"
    /\ is_active /\ mode = "all"
    /\ n_tests = 3 /\ TEST_NEXT = 1
    /\ boot.bodies = 1 /\ boot.tearDowns = 1

\* C19 -- TEST_SUCCESSFUL never overflows.  The counter is always within
\* 0..255, and every call of test_succeeded(), from the arm of a test or
\* from panicked(), finds it below 255 and leaves it larger by one.
C19_NoOverflow ==
    /\ TEST_SUCCESSFUL \in 0..(U8_MOD - 1)
    /\ [][ (pc \in {"body", "panicked"} /\ pc' # "runner" /\ report' = "ok") =>
              /\ TEST_SUCCESSFUL < U8_MOD - 1
              /\ TEST_SUCCESSFUL' = TEST_SUCCESSFUL + 1
         ]_vars

\* C20 -- A success is recorded once per executed test and only for its
\* body.  In a power cycle TEST_SUCCESSFUL grows, from the value found at
\* boot or written by activate(), by no more than the number of bodies
\* started; it is changed by the program only when the body returns or
\* when panicked() handles a panic raised in the body; and when panicked()
\* handles a panic raised elsewhere (set-up hook, tear-down hook, the
\* tear-down call of panicked() itself) it reports no success and leaves
\* the counter as it is.
C20_Inv ==
    LET base == IF boot.initiated THEN 0 ELSE boot.success
    IN  (TEST_SUCCESSFUL - base) % U8_MOD <= boot.bodies

C20_SuccessOnlyForBody ==
    /\ C20_Inv
    /\ [][ /\ C20_Inv'
           /\ (TEST_SUCCESSFUL' # TEST_SUCCESSFUL /\ pc' # "runner"
                  /\ pc # "initiate") =>
                 (pc = "body" \/ (pc = "panicked" /\ faultIn = "body"))
           /\ (pc = "panicked" /\ faultIn # "body") =>
                 (TEST_SUCCESSFUL' = TEST_SUCCESSFUL /\ report' # "ok")
         ]_vars

\* C21 -- A selection that is no test index.  In a power cycle in which a
\* value i with n_tests <= i <= 254 was selected at the menu: no body
\* starts; TEST_SECRET, TEST_NEXT and TEST_SUCCESSFUL are not written and
\* hold what runner() found at boot; test_set_up and test_tear_down are
\* each invoked at most once, set-up first, and each exactly once by the
\* time the branch has returned; runner() then returns.
C21_Inv ==
    (mode = "single" /\ test_index >= n_tests) =>
        /\ test_index = boot.selection
        /\ test_index \in n_tests..(RUN_ALL - 1)
        /\ boot.bodies = 0 /\ pc # "body"
        /\ ~is_active /\ ~boot.active
        /\ TEST_NEXT = boot.next /\ TEST_SUCCESSFUL = boot.success
        /\ boot.setUps <= 1 /\ boot.tearDowns <= 1
        /\ (pc \in {"run", "teardown"} =>
               boot.setUps = 1 /\ boot.tearDowns = 0)
        /\ (pc \in {"runner_end", "returned"} =>
               boot.setUps = 1 /\ boot.tearDowns = 1)

C21_NoSuchTest ==
    /\ C21_Inv
    /\ [][ /\ C21_Inv'
           /\ (mode = "single" /\ test_index >= n_tests /\ pc' # "runner") =>
                 UNCHANGED store
           /\ (mode = "single" /\ test_index >= n_tests /\ pc = "run") =>
                 pc' = "teardown"
           /\ (mode = "single" /\ test_index >= n_tests /\ pc = "runner_end") =>
                 pc' = "returned"
         ]_vars

====
